---- MODULE Spec2Model ----
(***************************************************************************)
(* A model of tor_correlation.py: the correlation matcher                  *)
(* find_correlations (the core), the sample fixture, the relay directory   *)
(* adapter and the control flow of main.                                   *)
(*                                                                         *)
(* Numbers.  Byte counts and the time window are Python ints and are TLA+  *)
(* integers.  Timestamps, delays and scores are Python floats, that is     *)
(* IEEE-754 binary64 values; they are modelled exactly, as records         *)
(*     [neg |-> sign, m |-> mantissa, e |-> exponent]   = (-1)^neg*m*2^e   *)
(* where the mantissa is an odd natural number written in base 2^10, least *)
(* significant digit first (TLC's integers have 32 bits, a binary64        *)
(* mantissa has 53).  Every float operation computes the exact             *)
(* result and rounds it to 53 significant bits, ties to even, as the       *)
(* hardware does.  Exponent overflow and subnormal numbers are outside the *)
(* magnitudes the model draws and are not modelled.                        *)
(***************************************************************************)
EXTENDS Integers, Sequences, FiniteSets, TLC

(***************************************************************************)
(* Naturals as sequences of digits in base 2^LimbBits, least significant   *)
(* digit first, no high zero digit.  A digit times a small natural plus a  *)
(* carry stays below 2^31 for small naturals up to 2^20.                   *)
(***************************************************************************)
LimbBits == 10

Base == 2 ^ LimbBits

RECURSIVE NatLimbs(_)
NatLimbs(n) ==
    IF n = 0 THEN <<>> ELSE <<n % Base>> \o NatLimbs(n \div Base)

RECURSIVE BitLen(_)
BitLen(n) == IF n = 0 THEN 0 ELSE 1 + BitLen(n \div 2)

RECURSIVE BTrim(_)
BTrim(a) ==
    IF a = <<>> THEN <<>>
    ELSE IF a[Len(a)] = 0 THEN BTrim(SubSeq(a, 1, Len(a) - 1))
    ELSE a

\* the number of significant bits of a
BLen(a) == IF a = <<>> THEN 0 ELSE (Len(a) - 1) * LimbBits + BitLen(a[Len(a)])

RECURSIVE BAddC(_, _, _)
BAddC(a, b, c) ==
    IF a = <<>> /\ b = <<>>
    THEN IF c = 0 THEN <<>> ELSE <<c>>
    ELSE LET x == IF a = <<>> THEN 0 ELSE Head(a)
             y == IF b = <<>> THEN 0 ELSE Head(b)
             s == x + y + c
         IN  <<s % Base>> \o BAddC(IF a = <<>> THEN a ELSE Tail(a),
                                    IF b = <<>> THEN b ELSE Tail(b),
                                    s \div Base)

BAdd(a, b) == BAddC(a, b, 0)

\* a - b for a >= b
RECURSIVE BSubC(_, _, _)
BSubC(a, b, c) ==
    IF a = <<>> THEN <<>>
    ELSE LET y == IF b = <<>> THEN 0 ELSE Head(b)
             s == Head(a) - y - c
         IN  <<s % Base>> \o BSubC(Tail(a),
                                    IF b = <<>> THEN b ELSE Tail(b),
                                    IF s < 0 THEN 1 ELSE 0)

BSub(a, b) == BTrim(BSubC(a, b, 0))

\* -1, 0, 1 as a < b, a = b, a > b
RECURSIVE BCmp(_, _)
BCmp(a, b) ==
    IF Len(a) # Len(b) THEN (IF Len(a) < Len(b) THEN -1 ELSE 1)
    ELSE IF a = <<>> THEN 0
    ELSE IF a[Len(a)] # b[Len(b)] THEN (IF a[Len(a)] < b[Len(b)] THEN -1 ELSE 1)
    ELSE BCmp(SubSeq(a, 1, Len(a) - 1), SubSeq(b, 1, Len(b) - 1))

\* a * k for a small natural k
RECURSIVE BMulC(_, _, _)
BMulC(a, k, c) ==
    IF a = <<>> THEN NatLimbs(c)
    ELSE LET t == Head(a) * k + c
         IN  <<t % Base>> \o BMulC(Tail(a), k, t \div Base)

BMulSmall(a, k) == BTrim(BMulC(a, k, 0))

\* quotient and remainder of a by a small natural d > 0, r the running remainder
RECURSIVE BDivR(_, _, _)
BDivR(a, d, r) ==
    IF a = <<>> THEN [q |-> <<>>, r |-> r]
    ELSE LET t    == Base * r + a[Len(a)]
             rest == BDivR(SubSeq(a, 1, Len(a) - 1), d, t % d)
         IN  [q |-> Append(rest.q, t \div d), r |-> rest.r]

BDivSmall(a, d) ==
    LET qr == BDivR(a, d, 0) IN [q |-> BTrim(qr.q), r |-> qr.r]

\* a * 2^k
BShl(a, k) ==
    IF a = <<>> \/ k = 0 THEN a
    ELSE [x \in 1..(k \div LimbBits) |-> 0] \o BMulSmall(a, 2 ^ (k % LimbBits))

\* a \div 2^k, and whether a bit was shifted out
BShr(a, k) ==
    LET dl   == k \div LimbBits
        low  == \E x \in 1..dl : x <= Len(a) /\ a[x] # 0
        high == IF dl >= Len(a) THEN <<>> ELSE SubSeq(a, dl + 1, Len(a))
        qr   == BDivSmall(high, 2 ^ (k % LimbBits))
    IN  [q |-> qr.q, sticky |-> low \/ qr.r # 0]

BOdd(a) == a # <<>> /\ a[1] % 2 = 1

(***************************************************************************)
(* binary64 values.                                                        *)
(***************************************************************************)
MantBits == 53

FZero == [neg |-> FALSE, m |-> <<>>, e |-> 0]

\* the number of low zero bits of a digit n > 0
RECURSIVE LowZeros(_)
LowZeros(n) == IF n % 2 = 1 THEN 0 ELSE 1 + LowZeros(n \div 2)

\* the canonical form: an odd mantissa, or zero
RECURSIVE FNorm(_, _, _)
FNorm(neg, m, e) ==
    IF m = <<>> THEN FZero
    ELSE IF m[1] = 0 THEN FNorm(neg, Tail(m), e + LimbBits)
    ELSE IF m[1] % 2 = 0
         THEN LET z == LowZeros(m[1])
              IN  [neg |-> neg, m |-> BDivSmall(m, 2 ^ z).q, e |-> e + z]
    ELSE [neg |-> neg, m |-> m, e |-> e]

\* round (m + s) * 2^e to MantBits significant bits, ties to even; sticky says
\* that the exact value exceeds m * 2^e by some s with 0 < s < 1
FRound(neg, m, e, sticky) ==
    LET n == BLen(m) IN
    IF n <= MantBits THEN FNorm(neg, m, e)
    ELSE LET drop == n - MantBits
             sh   == BShr(m, drop - 1)
             half == BOdd(sh.q)
             kept == BDivSmall(sh.q, 2).q
             rest == sticky \/ sh.sticky
             up   == half /\ (rest \/ BOdd(kept))
         IN  FNorm(neg, IF up THEN BAdd(kept, <<1>>) ELSE kept, e + drop)

FromInt(n) ==
    IF n < 0 THEN FNorm(TRUE, NatLimbs(-n), 0) ELSE FNorm(FALSE, NatLimbs(n), 0)

FNeg(x) == IF x.m = <<>> THEN x ELSE [x EXCEPT !.neg = ~x.neg]

FAdd(x, y) ==
    LET e == IF x.e < y.e THEN x.e ELSE y.e
        a == BShl(x.m, x.e - e)
        b == BShl(y.m, y.e - e)
    IN  IF x.neg = y.neg THEN FRound(x.neg, BAdd(a, b), e, FALSE)
        ELSE IF BCmp(a, b) >= 0 THEN FRound(x.neg, BSub(a, b), e, FALSE)
        ELSE FRound(y.neg, BSub(b, a), e, FALSE)

FSub(x, y) == FAdd(x, FNeg(y))

\* float * int, for a small positive int k
FMulInt(x, k) == FRound(x.neg, BMulSmall(x.m, k), x.e, FALSE)

\* float / int, for a small positive int d: the quotient is taken to at least
\* MantBits + 2 bits and the remainder is the sticky bit
FDivInt(x, d) ==
    IF x.m = <<>> THEN FZero
    ELSE LET k  == MantBits + 3 + BitLen(d)
             qr == BDivSmall(BShl(x.m, k), d)
         IN  FRound(x.neg, qr.q, x.e - k, qr.r # 0)

FLess(x, y) ==
    IF x.m = <<>> THEN y.m # <<>> /\ ~y.neg
    ELSE IF y.m = <<>> THEN x.neg
    ELSE IF x.neg # y.neg THEN x.neg
    ELSE LET e == IF x.e < y.e THEN x.e ELSE y.e
             c == BCmp(BShl(x.m, x.e - e), BShl(y.m, y.e - e))
         IN  IF x.neg THEN c > 0 ELSE c < 0

\* the float a decimal literal with one fractional digit denotes: the
\* binary64 value nearest to tenths / 10
FloatLiteral(tenths) == FDivInt(FromInt(tenths), 10)

\* format(x, '.<digits>f') for x >= 0, as the integer x * 10^digits rounded to
\* the nearest integer from the exact binary value, ties to even
FormatFixed(x, digits) ==
    LET scaled == BMulSmall(x.m, 10 ^ digits)
        sh     == IF x.e >= 0 THEN [q |-> BShl(scaled, x.e), sticky |-> FALSE]
                  ELSE BShr(scaled, (-x.e) - 1)
        whole  == IF x.e >= 0 THEN sh.q ELSE BDivSmall(sh.q, 2).q
        half   == x.e < 0 /\ BOdd(sh.q)
        up     == half /\ (sh.sticky \/ BOdd(whole))
        r      == IF up THEN BAdd(whole, <<1>>) ELSE whole
    IN  IF r = <<>> THEN 0
        ELSE IF Len(r) = 1 THEN r[1]
        ELSE IF Len(r) = 2 THEN r[1] + Base * r[2]
        ELSE r[1] + Base * r[2] + Base * Base * r[3]

(***************************************************************************)
(* PART 3: traffic data.                                                   *)
(***************************************************************************)
\* TrafficFlow(node_id, node_name, timestamp, bytes_transferred); the
\* timestamp is given as the decimal literal tenths / 10
TrafficFlow(node_id, node_name, tenths, bytes_transferred) ==
    [node_id   |-> node_id,
     node_name |-> node_name,
     timestamp |-> FloatLiteral(tenths),
     bytes     |-> bytes_transferred]

create_sample_traffic ==
    [entry_traffic |->
        << TrafficFlow("e1", "relay_guard_1", 1000, 1000),
           TrafficFlow("e1", "relay_guard_1", 1010, 500),
           TrafficFlow("e1", "relay_guard_1", 1020, 1500),
           TrafficFlow("e1", "relay_guard_1", 1030, 2000) >>,
     exit_traffic |->
        << TrafficFlow("x1", "relay_exit_7", 1032, 1000),
           TrafficFlow("x1", "relay_exit_7", 1042, 500),
           TrafficFlow("x1", "relay_exit_7", 1052, 1500),
           TrafficFlow("x1", "relay_exit_7", 1062, 2000) >>]

(***************************************************************************)
(* The inputs the model draws.                                             *)
(***************************************************************************)
MaxLen == 2

MaxRelays == 2

SeqsUpTo(S, n) == UNION {[1..m -> S] : m \in 0..n}

Windows == {3, 5, 8}

\* entry samples at t = 1.0 and 4.0, exit samples at t = 3.2, 4.0 and 6.0: the
\* delays are negative, zero, inside, on and beyond each window; the byte
\* counts give differences 0, 20, 80, 100 and 120 and the pair 0/0
EntrySamples ==
    { TrafficFlow("e1", "relay_guard_1", 10, 0),
      TrafficFlow("e1", "relay_guard_1", 10, 20),
      TrafficFlow("e1", "relay_guard_1", 10, 100),
      TrafficFlow("e1", "relay_guard_1", 40, 100) }

ExitSamples ==
    { TrafficFlow("x1", "relay_exit_7", 32, 0),
      TrafficFlow("x1", "relay_exit_7", 32, 20),
      TrafficFlow("x1", "relay_exit_7", 40, 120),
      TrafficFlow("x1", "relay_exit_7", 60, 0) }

\* relay records of the summary document: keys are the keys present
Fingerprint == [c \in 1..18 |-> IF c % 2 = 0 THEN "A" ELSE "9"]

Relays ==
    { [keys |-> {"flags", "nickname", "fingerprint"}, flags |-> {"Exit", "Running"},
       nickname |-> <<"x", "1">>, fingerprint |-> Fingerprint],
      [keys |-> {"flags", "fingerprint"}, flags |-> {"Guard", "Running"},
       nickname |-> <<>>, fingerprint |-> Fingerprint],
      [keys |-> {}, flags |-> {}, nickname |-> <<>>, fingerprint |-> <<>>] }

\* the documents the endpoint may answer with: one without the relays key,
\* and those with up to MaxRelays relays
Documents ==
    {[has_relays |-> FALSE, relays |-> <<>>]}
        \cup {[has_relays |-> TRUE, relays |-> r] : r \in SeqsUpTo(Relays, MaxRelays)}

VARIABLES
    pc,            \* the position of the running program
    err,           \* the exception that ended the run, "" when none
    tor_data,      \* main: the parsed summary document
    relay_index,   \* extract_nodes: the relay the loop is at
    entry_nodes,   \* extract_nodes: relays without the Exit flag
    exit_nodes,    \* extract_nodes: relays with the Exit flag
    entry_flows,   \* the entry-side list object held by the caller
    exit_flows,    \* the exit-side list object held by the caller
    time_window,   \* find_correlations: the time_window argument
    i,             \* find_correlations: index of the entry the outer loop is at
    j,             \* find_correlations: index of the exit the inner loop is at
    matches,       \* find_correlations: the local result list
    src,           \* history: the index pair <<i, j>> each element of matches came from
    correlations,  \* the caller's binding of the latest returned list
    first,         \* the caller's binding of the list the first call returned
    calls,         \* the number of calls that returned
    report,        \* main: the lines printed per match, as formatted numbers
    shown,         \* the matches passed to plot_simple_correlation
    rendered       \* the image files written, in order

vars == << pc, err, tor_data, relay_index, entry_nodes, exit_nodes, entry_flows,
           exit_flows, time_window, i, j, matches, src, correlations, first,
           calls, report, shown, rendered >>

mainVars == << tor_data, relay_index, entry_nodes, exit_nodes, report, shown, rendered >>

findVars == << i, j, matches, src >>

(***************************************************************************)
(* PART 4: correlation.                                                    *)
(***************************************************************************)
ByteTolerance == 100

ScoreWeight == 50

DefaultWindow == 5

Abs(n) == IF n < 0 THEN -n ELSE n

Max(a, b) == IF a > b THEN a ELSE b

\* line 78
ByteDiff(entry, exit) == Abs(entry.bytes - exit.bytes)

\* line 81
Delay(entry, exit) == FSub(exit.timestamp, entry.timestamp)

\* a mutant of InWindow: the window closed on the right, 0 < delay <= W
InWindowClosed(delay, W) == FLess(FZero, delay) /\ ~FLess(FromInt(W), delay)

\* line 83: 0 < delay < time_window
InWindow(delay, W) == FLess(FZero, delay) /\ FLess(delay, FromInt(W))

\* a mutant of WithinTolerance: the tolerance included, byte_diff <= 100
WithinToleranceInclusive(byte_diff) == byte_diff <= ByteTolerance

\* line 80: byte_diff < 100
WithinTolerance(byte_diff) == byte_diff < ByteTolerance

\* a mutant of DivisionByZero: line 84 dividing by the smaller byte count
DivisionByMinZero(entry, exit) ==
    (IF entry.bytes < exit.bytes THEN entry.bytes ELSE exit.bytes) = 0

\* line 84 divides by max(entry.bytes, exit.bytes)
DivisionByZero(entry, exit) == Max(entry.bytes, exit.bytes) = 0

\* a mutant of ByteScore: the ratio itself, without 1 -
ByteScoreRatio(entry, exit, byte_diff) ==
    FMulInt(FDivInt(FromInt(byte_diff), Max(entry.bytes, exit.bytes)), ScoreWeight)

\* line 84
ByteScore(entry, exit, byte_diff) ==
    FMulInt(FSub(FromInt(1), FDivInt(FromInt(byte_diff), Max(entry.bytes, exit.bytes))),
            ScoreWeight)

\* a mutant of TimingScore: the ratio itself, without 1 -
TimingScoreRatio(delay, W) == FMulInt(FDivInt(delay, W), ScoreWeight)

\* line 85
TimingScore(delay, W) ==
    FMulInt(FSub(FromInt(1), FDivInt(delay, W)), ScoreWeight)

\* line 86
Confidence(byte_score, timing_score) == FAdd(byte_score, timing_score)

\* a mutant of Match: the byte count taken from the exit sample
MatchExitBytes(entry, exit, byte_diff, delay, W) ==
    [entry_node |-> entry.node_name,
     exit_node  |-> exit.node_name,
     confidence |-> Confidence(ByteScore(entry, exit, byte_diff), TimingScore(delay, W)),
     delay      |-> delay,
     bytes      |-> exit.bytes]

\* lines 84-94: the scores and the appended dict
Match(entry, exit, byte_diff, delay, W) ==
    [entry_node |-> entry.node_name,
     exit_node  |-> exit.node_name,
     confidence |-> Confidence(ByteScore(entry, exit, byte_diff), TimingScore(delay, W)),
     delay      |-> delay,
     bytes      |-> entry.bytes]

\* a mutant of AddMatch: the element put in front, list.insert(0, element)
AddMatchFront(list, element) == <<element>> \o list

\* line 88: matches.append
AddMatch(list, element) == Append(list, element)

\* a mutant of SkipEntry: the first exit is read before the inner loop, which
\* raises IndexError on an empty list
SkipEntryRaise ==
    /\ pc' = "raised"
    /\ err' = "IndexError"
    /\ UNCHANGED << i, j, matches, src >>

\* lines 76-77 with no exit to loop over: the outer loop goes to the next entry
SkipEntry ==
    /\ i' = i + 1
    /\ UNCHANGED << j, matches, src, pc, err >>

\* a mutant of FindCall: the list kept from call to call, as a mutable default
\* argument would be
FindCallKeep(W) ==
    /\ time_window' = W
    /\ matches' = matches
    /\ src' = <<>>
    /\ i' = 1
    /\ j' = 1
    /\ pc' = "scan"

\* lines 72-74: the call binds the arguments and starts from an empty list
FindCall(W) ==
    /\ time_window' = W
    /\ matches' = <<>>
    /\ src' = <<>>
    /\ i' = 1
    /\ j' = 1
    /\ pc' = "scan"

\* lines 76-94: one iteration of the inner loop on the pair (i, j), or one
\* iteration of the outer loop when there is no exit to loop over; raised is
\* where control goes when line 84 raises ZeroDivisionError, which unwinds
\* the call and drops its local list
FindStep(raised) ==
    /\ pc = "scan"
    /\ i <= Len(entry_flows)
    /\ IF exit_flows = <<>>
       THEN SkipEntry
       ELSE LET entry     == entry_flows[i]
                exit      == exit_flows[j]
                byte_diff == ByteDiff(entry, exit)
                delay     == Delay(entry, exit)
                found     == WithinTolerance(byte_diff) /\ InWindow(delay, time_window)
            IN  IF found /\ DivisionByZero(entry, exit)
                THEN /\ pc' = raised
                     /\ err' = "ZeroDivisionError"
                     /\ matches' = <<>>
                     /\ UNCHANGED << i, j, src >>
                ELSE /\ IF found
                        THEN /\ matches' = AddMatch(matches,
                                     Match(entry, exit, byte_diff, delay, time_window))
                             /\ src' = AddMatch(src, <<i, j>>)
                        ELSE UNCHANGED << matches, src >>
                     /\ IF j < Len(exit_flows)
                        THEN j' = j + 1 /\ i' = i
                        ELSE j' = 1 /\ i' = i + 1
                     /\ UNCHANGED << pc, err >>
    /\ UNCHANGED << entry_flows, exit_flows, time_window >>

\* line 96: the list goes to the caller, which goes on at next
FindReturn(next) ==
    /\ pc = "scan"
    /\ i > Len(entry_flows)
    /\ correlations' = matches
    /\ first' = IF calls = 0 THEN matches ELSE first
    /\ calls' = calls + 1
    /\ pc' = next
    /\ UNCHANGED << err, entry_flows, exit_flows, time_window, i, j, matches, src >>

(***************************************************************************)
(* A caller of find_correlations: it holds two sequences and a window and  *)
(* calls the function on them, once (Spec) or twice (RerunSpec).           *)
(***************************************************************************)
Init ==
    /\ pc = "call"
    /\ err = ""
    /\ tor_data = [has_relays |-> FALSE, relays |-> <<>>]
    /\ relay_index = 0
    /\ entry_nodes = <<>>
    /\ exit_nodes = <<>>
    /\ entry_flows \in SeqsUpTo(EntrySamples, MaxLen)
    /\ exit_flows \in SeqsUpTo(ExitSamples, MaxLen)
    /\ time_window \in Windows
    /\ i = 0
    /\ j = 0
    /\ matches = <<>>
    /\ src = <<>>
    /\ correlations = <<>>
    /\ first = <<>>
    /\ calls = 0
    /\ report = <<>>
    /\ shown = <<>>
    /\ rendered = <<>>

Call ==
    /\ pc = "call"
    /\ FindCall(time_window)
    /\ UNCHANGED << err, entry_flows, exit_flows, correlations, first, calls >>
    /\ UNCHANGED mainVars

Scan ==
    /\ FindStep("raised")
    /\ UNCHANGED << correlations, first, calls >>
    /\ UNCHANGED mainVars

Return ==
    /\ FindReturn("end")
    /\ UNCHANGED mainVars

Next == Call \/ Scan \/ Return

Spec == Init /\ [][Next]_vars

\* the caller that calls again on the same sequences after the first return
ReturnAndRerun ==
    /\ FindReturn(IF calls = 0 THEN "call" ELSE "end")
    /\ UNCHANGED mainVars

RerunNext == Call \/ Scan \/ ReturnAndRerun

RerunSpec == Init /\ [][RerunNext]_vars

(***************************************************************************)
(* PART 1 and PART 2: the relay directory adapter.                         *)
(***************************************************************************)
NicknameCut == 16

Unknown == <<"u", "n", "k", "n", "o", "w", "n">>

Take(s, n) == IF Len(s) <= n THEN s ELSE SubSeq(s, 1, n)

\* line 29
Nickname(relay) ==
    IF "nickname" \in relay.keys THEN relay.nickname
    ELSE Take(IF "fingerprint" \in relay.keys THEN relay.fingerprint ELSE Unknown,
              NicknameCut)

\* line 28
Flags(relay) == IF "flags" \in relay.keys THEN relay.flags ELSE {}

\* lines 31-34; the model's relays carry no addresses
NodeInfo(relay) == [nickname |-> Nickname(relay), addresses |-> <<>>]

(***************************************************************************)
(* main.                                                                   *)
(***************************************************************************)
MainInit ==
    /\ pc = "fetch"
    /\ err = ""
    /\ tor_data = [has_relays |-> FALSE, relays |-> <<>>]
    /\ relay_index = 0
    /\ entry_nodes = <<>>
    /\ exit_nodes = <<>>
    /\ entry_flows = <<>>
    /\ exit_flows = <<>>
    /\ time_window = 0
    /\ i = 0
    /\ j = 0
    /\ matches = <<>>
    /\ src = <<>>
    /\ correlations = <<>>
    /\ first = <<>>
    /\ calls = 0
    /\ report = <<>>
    /\ shown = <<>>
    /\ rendered = <<>>

\* lines 13-18 and 234: the request or the JSON decoding raises, or the
\* document is returned
fetch_tor_data ==
    /\ pc = "fetch"
    /\ \/ /\ \E e \in {"ConnectionError", "JSONDecodeError"} : err' = e
          /\ pc' = "fatal"
          /\ UNCHANGED << tor_data, relay_index >>
       \/ /\ tor_data' \in Documents
          /\ relay_index' = 1
          /\ pc' = "extract"
          /\ err' = err
    /\ UNCHANGED << entry_nodes, exit_nodes, entry_flows, exit_flows, time_window,
                    correlations, first, calls, report, shown, rendered >>
    /\ UNCHANGED findVars

\* a mutant of extract_nodes_raise: a missing relays key read as no relays,
\* tor_data.get('relays', [])
extract_nodes_tolerate ==
    /\ pc = "extract"
    /\ ~tor_data.has_relays
    /\ pc' = "traffic"
    /\ UNCHANGED << err, tor_data, relay_index, entry_nodes, exit_nodes, entry_flows,
                    exit_flows, time_window, correlations, first, calls, report,
                    shown, rendered >>
    /\ UNCHANGED findVars

\* line 27: the document has no relays key
extract_nodes_raise ==
    /\ pc = "extract"
    /\ ~tor_data.has_relays
    /\ err' = "KeyError"
    /\ pc' = "fatal"
    /\ UNCHANGED << tor_data, relay_index, entry_nodes, exit_nodes, entry_flows,
                    exit_flows, time_window, correlations, first, calls, report,
                    shown, rendered >>
    /\ UNCHANGED findVars

\* lines 27-39: one iteration of the loop over the relays
extract_nodes_relay ==
    /\ pc = "extract"
    /\ tor_data.has_relays
    /\ relay_index <= Len(tor_data.relays)
    /\ LET relay == tor_data.relays[relay_index]
       IN  IF "Exit" \in Flags(relay)
           THEN /\ exit_nodes' = Append(exit_nodes, NodeInfo(relay))
                /\ entry_nodes' = entry_nodes
           ELSE /\ entry_nodes' = Append(entry_nodes, NodeInfo(relay))
                /\ exit_nodes' = exit_nodes
    /\ relay_index' = relay_index + 1
    /\ UNCHANGED << pc, err, tor_data, entry_flows, exit_flows, time_window,
                    correlations, first, calls, report, shown, rendered >>
    /\ UNCHANGED findVars

\* lines 41 and 235-238
extract_nodes_return ==
    /\ pc = "extract"
    /\ tor_data.has_relays
    /\ relay_index > Len(tor_data.relays)
    /\ pc' = "traffic"
    /\ UNCHANGED << err, tor_data, relay_index, entry_nodes, exit_nodes, entry_flows,
                    exit_flows, time_window, correlations, first, calls, report,
                    shown, rendered >>
    /\ UNCHANGED findVars

\* lines 241-242
main_traffic ==
    /\ pc = "traffic"
    /\ entry_flows' = create_sample_traffic.entry_traffic
    /\ exit_flows' = create_sample_traffic.exit_traffic
    /\ pc' = "correlate"
    /\ UNCHANGED << err, time_window, correlations, first, calls >>
    /\ UNCHANGED mainVars
    /\ UNCHANGED findVars

\* line 245: the call, with the default window
main_correlate ==
    /\ pc = "correlate"
    /\ FindCall(DefaultWindow)
    /\ UNCHANGED << err, entry_flows, exit_flows, correlations, first, calls >>
    /\ UNCHANGED mainVars

main_scan ==
    /\ FindStep("fatal")
    /\ UNCHANGED << correlations, first, calls >>
    /\ UNCHANGED mainVars

main_correlated ==
    /\ FindReturn("report")
    /\ UNCHANGED mainVars

\* lines 246-253: the count and one block of lines per match
main_report ==
    /\ pc = "report"
    /\ report' = [k \in 1..Len(correlations) |->
                    [entry      |-> correlations[k].entry_node,
                     exit       |-> correlations[k].exit_node,
                     confidence |-> FormatFixed(correlations[k].confidence, 1),
                     delay      |-> FormatFixed(correlations[k].delay, 2)]]
    /\ pc' = "visualize"
    /\ UNCHANGED << err, tor_data, relay_index, entry_nodes, exit_nodes, entry_flows,
                    exit_flows, time_window, correlations, first, calls, shown,
                    rendered >>
    /\ UNCHANGED findVars

\* lines 256-258: plot_simple_correlation on the first match, or nothing to draw
main_visualize ==
    /\ pc = "visualize"
    /\ IF correlations # <<>>
       THEN /\ shown' = Append(shown, correlations[1])
            /\ rendered' = Append(rendered, "correlation_graph.png")
            /\ pc' = "timeline"
       ELSE /\ pc' = "done"
            /\ UNCHANGED << shown, rendered >>
    /\ UNCHANGED << err, tor_data, relay_index, entry_nodes, exit_nodes, entry_flows,
                    exit_flows, time_window, correlations, first, calls, report >>
    /\ UNCHANGED findVars

\* lines 259-260: plot_timeline
main_timeline ==
    /\ pc = "timeline"
    /\ rendered' = Append(rendered, "timeline_graph.png")
    /\ pc' = "done"
    /\ UNCHANGED << err, tor_data, relay_index, entry_nodes, exit_nodes, entry_flows,
                    exit_flows, time_window, correlations, first, calls, report,
                    shown >>
    /\ UNCHANGED findVars

MainNext ==
    \/ fetch_tor_data
    \/ extract_nodes_raise
    \/ extract_nodes_relay
    \/ extract_nodes_return
    \/ main_traffic
    \/ main_correlate
    \/ main_scan
    \/ main_correlated
    \/ main_report
    \/ main_visualize
    \/ main_timeline

MainSpec == MainInit /\ [][MainNext]_vars

(***************************************************************************)
(* The properties.  A call has returned when the caller holds its list;    *)
(* the pair (a, b) is entry_flows[a] with exit_flows[b].                   *)
(***************************************************************************)
Returned == calls >= 1 /\ pc \notin {"scan", "raised", "fatal"}

PairByteDiff(a, b) ==
    LET d == entry_flows[a].bytes - exit_flows[b].bytes
    IN  IF d < 0 THEN -d ELSE d

PairMax(a, b) ==
    IF entry_flows[a].bytes > exit_flows[b].bytes
    THEN entry_flows[a].bytes ELSE exit_flows[b].bytes

PairDelay(a, b) == FSub(exit_flows[b].timestamp, entry_flows[a].timestamp)

FLeq(x, y) == ~FLess(y, x)

PairMatches(a, b) ==
    /\ PairByteDiff(a, b) < 100
    /\ LET delay == PairDelay(a, b)
       IN  FLess(FZero, delay) /\ FLess(delay, FromInt(time_window))

\* C1: a pair with delay <= 0, delay >= W or byte_diff >= 100 (boundaries
\* included) has no link in the returned list, and every returned link has
\* 0 < delay < W
C1_OnlyMatchingPairs ==
    Returned =>
        /\ Len(src) = Len(correlations)
        /\ \A a \in 1..Len(entry_flows), b \in 1..Len(exit_flows) :
              LET delay == PairDelay(a, b)
              IN  (\/ FLeq(delay, FZero)
                   \/ FLeq(FromInt(time_window), delay)
                   \/ PairByteDiff(a, b) >= 100)
                      => \A k \in 1..Len(src) : src[k] # <<a, b>>
        /\ \A k \in 1..Len(correlations) :
              /\ FLess(FZero, correlations[k].delay)
              /\ FLess(correlations[k].delay, FromInt(time_window))
              /\ correlations[k].delay = PairDelay(src[k][1], src[k][2])
              /\ PairByteDiff(src[k][1], src[k][2]) < 100

\* C1 witness: a call returned a link although its inputs also hold a pair on
\* the boundary delay = W and a pair on the boundary byte_diff = 100 whose
\* delay is inside the window
C1_Witness ==
    /\ Returned
    /\ correlations # <<>>
    /\ \E a \in 1..Len(entry_flows), b \in 1..Len(exit_flows) :
          PairDelay(a, b) = FromInt(time_window) /\ PairByteDiff(a, b) < 100
    /\ \E a \in 1..Len(entry_flows), b \in 1..Len(exit_flows) :
          PairByteDiff(a, b) = 100 /\ FLess(FZero, PairDelay(a, b))
                                   /\ FLess(PairDelay(a, b), FromInt(time_window))

\* the reference: a scan of the full cross product in index order
AllPairs ==
    LET n == Len(exit_flows)
    IN  [k \in 1..(Len(entry_flows) * n) |-> <<((k - 1) \div n) + 1, ((k - 1) % n) + 1>>]

RefPairs == SelectSeq(AllPairs, LAMBDA p : PairMatches(p[1], p[2]))

RefLink(a, b) ==
    LET delay == PairDelay(a, b)
    IN  [entry_node |-> entry_flows[a].node_name,
         exit_node  |-> exit_flows[b].node_name,
         delay      |-> delay,
         bytes      |-> entry_flows[a].bytes,
         confidence |->
            FAdd(FMulInt(FSub(FromInt(1),
                              FDivInt(FromInt(PairByteDiff(a, b)), PairMax(a, b))), 50),
                 FMulInt(FSub(FromInt(1), FDivInt(delay, time_window)), 50))]

AllPositive ==
    /\ \A a \in 1..Len(entry_flows) : entry_flows[a].bytes > 0
    /\ \A b \in 1..Len(exit_flows) : exit_flows[b].bytes > 0

\* C2: the returned list is the list of the reference links of the matching
\* index pairs, one per pair, in index order; with positive byte counts the
\* call does not fail
C2_EqualsCrossProduct ==
    /\ Returned =>
          LET ref == RefPairs
          IN  /\ src = ref
              /\ Len(correlations) = Len(ref)
              /\ \A k \in 1..Len(ref) : correlations[k] = RefLink(ref[k][1], ref[k][2])
    /\ AllPositive => err = ""

\* C2 witness: positive byte counts, two equal entry samples, and a returned
\* list that holds a link for each of them
C2_Witness ==
    /\ Returned
    /\ AllPositive
    /\ Len(entry_flows) = 2
    /\ entry_flows[1] = entry_flows[2]
    /\ Len(correlations) = 2
    /\ correlations[1] = correlations[2]
    /\ src = << <<1, 1>>, <<2, 1>> >>

\* C3: every returned link has 0 < confidence <= 100
C3_ConfidenceRange ==
    Returned =>
        \A k \in 1..Len(correlations) :
            /\ FLess(FZero, correlations[k].confidence)
            /\ FLeq(correlations[k].confidence, FromInt(100))

\* C3 witness: a returned link of a pair with one zero byte count
\* (byte_score 0), so that the confidence is the timing score alone
C3_Witness ==
    /\ Returned
    /\ Len(src) = Len(correlations)
    /\ \E k \in 1..Len(correlations) :
          /\ PairByteDiff(src[k][1], src[k][2]) = PairMax(src[k][1], src[k][2])
          /\ FLess(correlations[k].confidence, FromInt(50))

\* C4 as stated: of two returned links with the same delay the one with the
\* larger byte_diff has no greater confidence, and of two returned links with
\* the same byte_diff the one with the larger delay has no greater confidence
C4_Original ==
    (Returned /\ Len(src) = Len(correlations)) =>
        \A k1 \in 1..Len(correlations), k2 \in 1..Len(correlations) :
            LET bd1 == PairByteDiff(src[k1][1], src[k1][2])
                bd2 == PairByteDiff(src[k2][1], src[k2][2])
            IN  /\ (correlations[k1].delay = correlations[k2].delay /\ bd1 < bd2)
                       => FLeq(correlations[k2].confidence, correlations[k1].confidence)
                /\ (bd1 = bd2 /\ FLess(correlations[k1].delay, correlations[k2].delay))
                       => FLeq(correlations[k2].confidence, correlations[k1].confidence)

\* C4 amended: the same, for two returned links whose pairs have the same
\* max(entry.bytes, exit.bytes)
C4_MonotoneAtEqualMax ==
    (Returned /\ Len(src) = Len(correlations)) =>
        \A k1 \in 1..Len(correlations), k2 \in 1..Len(correlations) :
            LET bd1 == PairByteDiff(src[k1][1], src[k1][2])
                bd2 == PairByteDiff(src[k2][1], src[k2][2])
                mx1 == PairMax(src[k1][1], src[k1][2])
                mx2 == PairMax(src[k2][1], src[k2][2])
            IN  mx1 = mx2 =>
                /\ (correlations[k1].delay = correlations[k2].delay /\ bd1 < bd2)
                       => FLeq(correlations[k2].confidence, correlations[k1].confidence)
                /\ (bd1 = bd2 /\ FLess(correlations[k1].delay, correlations[k2].delay))
                       => FLeq(correlations[k2].confidence, correlations[k1].confidence)

\* C4 witness: two returned links with the same max and the same delay, the
\* second with the larger byte_diff and the smaller confidence
C4_Witness ==
    /\ Returned
    /\ Len(src) = Len(correlations)
    /\ \E k1 \in 1..Len(correlations), k2 \in 1..Len(correlations) :
          /\ PairMax(src[k1][1], src[k1][2]) = PairMax(src[k2][1], src[k2][2])
          /\ correlations[k1].delay = correlations[k2].delay
          /\ PairByteDiff(src[k1][1], src[k1][2]) < PairByteDiff(src[k2][1], src[k2][2])
          /\ FLess(correlations[k2].confidence, correlations[k1].confidence)

Aligned == << <<1, 1>>, <<2, 2>>, <<3, 3>>, <<4, 4>> >>

OnFixture ==
    /\ entry_flows = create_sample_traffic.entry_traffic
    /\ exit_flows = create_sample_traffic.exit_traffic
    /\ time_window = 5

\* C5 as stated: on the fixture with the default window the call returns 4
\* links, the k-th of entry k with exit k, each with byte_diff 0, delay 3.2 and
\* confidence 68.0
C5_Original ==
    Returned =>
        /\ OnFixture
        /\ Len(correlations) = 4
        /\ src = Aligned
        /\ \A k \in 1..Len(correlations) :
              /\ PairByteDiff(k, k) = 0
              /\ correlations[k].delay = FloatLiteral(32)
              /\ correlations[k].confidence = FromInt(68)

\* C5 amended: on the fixture with the default window the call returns 4
\* links, the k-th of entry k with exit k, each with byte_diff 0, delay
\* 3.2 + 3 * 2^-50 (3.200000000000003) and confidence 68 - 2^-45
\* (67.99999999999997); main prints them as 3.20 and 68.0
C5_FixtureLinks ==
    Returned =>
        /\ OnFixture
        /\ Len(correlations) = 4
        /\ src = Aligned
        /\ \A k \in 1..Len(correlations) :
              /\ PairByteDiff(k, k) = 0
              /\ correlations[k].delay
                    = FAdd(FloatLiteral(32), [neg |-> FALSE, m |-> <<3>>, e |-> -50])
              /\ correlations[k].confidence
                    = FSub(FromInt(68), [neg |-> FALSE, m |-> <<1>>, e |-> -45])
        /\ pc \in {"visualize", "timeline", "done"} =>
              /\ Len(report) = 4
              /\ \A k \in 1..Len(report) :
                    report[k].confidence = 680 /\ report[k].delay = 320

\* C5 witness: main ran to its end on the fixture and printed 4 matches
C5_Witness ==
    /\ pc = "done"
    /\ OnFixture
    /\ Len(correlations) = 4
    /\ Len(report) = 4
    /\ report[4].confidence = 680

LexLess(p, q) == p[1] < q[1] \/ (p[1] = q[1] /\ p[2] < q[2])

\* C6: the links are in iteration order, entries outer and exits inner: a link
\* that precedes another comes from the pair with the smaller entry index, or
\* the same entry index and the smaller exit index; so the first returned link
\* is that of the first matching pair in this order
C6_IterationOrder ==
    /\ Len(src) = Len(matches) =>
          \A k1 \in 1..Len(src), k2 \in 1..Len(src) :
              k1 < k2 => LexLess(src[k1], src[k2])
    /\ (Returned /\ correlations # <<>>) =>
          /\ correlations[1] = RefLink(src[1][1], src[1][2])
          /\ \A a \in 1..Len(entry_flows), b \in 1..Len(exit_flows) :
                PairMatches(a, b) => (<<a, b>> = src[1] \/ LexLess(src[1], <<a, b>>))

\* C6 witness: two links of the same entry, in exit order, the first with the
\* smaller confidence
C6_Witness ==
    /\ Returned
    /\ Len(correlations) >= 2
    /\ src[1][1] = src[2][1]
    /\ src[1][2] < src[2][2]
    /\ FLess(correlations[1].confidence, correlations[2].confidence)

\* C7: with an empty entry sequence or an empty exit sequence no error is
\* raised and the result is empty, whatever the other sequence and the window
C7_EmptyInput ==
    (entry_flows = <<>> \/ exit_flows = <<>>) =>
        /\ err = ""
        /\ pc # "raised"
        /\ matches = <<>>
        /\ correlations = <<>>

\* C7 witness: the call returned on two entry samples, one of zero bytes, and
\* no exit sample
C7_Witness ==
    /\ pc = "end"
    /\ calls = 1
    /\ exit_flows = <<>>
    /\ Len(entry_flows) = 2
    /\ \E a \in 1..Len(entry_flows) : entry_flows[a].bytes = 0
    /\ correlations = <<>>

\* C8: the second call on the same sequences and window returns the list the
\* first returned, element for element; no step changes an input sequence or
\* a sample in it; every call starts from an empty list
C8_Rerun ==
    /\ [](calls = 2 => correlations = first)
    /\ [][/\ entry_flows' = entry_flows
          /\ exit_flows' = exit_flows
          /\ pc = "call" => matches' = <<>>]_vars

\* C8 witness: two calls returned the same list of at least two links
C8_Witness ==
    /\ calls = 2
    /\ Len(correlations) >= 2
    /\ correlations = first

ZeroPairInWindow(a, b) ==
    /\ entry_flows[a].bytes = 0
    /\ exit_flows[b].bytes = 0
    /\ FLess(FZero, PairDelay(a, b))
    /\ FLess(PairDelay(a, b), FromInt(time_window))

\* C9: the call fails with ZeroDivisionError if and only if some pair has both
\* byte counts 0 and 0 < delay < W; a failed call returns nothing, and the
\* links it had found are lost
C9_ZeroDivision ==
    /\ pc = "raised" =>
          /\ err = "ZeroDivisionError"
          /\ ZeroPairInWindow(i, j)
          /\ calls = 0
          /\ correlations = <<>>
          /\ matches = <<>>
    /\ Returned =>
          /\ err = ""
          /\ \A a \in 1..Len(entry_flows), b \in 1..Len(exit_flows) :
                ~ZeroPairInWindow(a, b)

\* C9 witness: the call failed after it had found a link and had skipped a
\* zero/zero pair whose delay is outside the window
C9_Witness ==
    /\ pc = "raised"
    /\ src # <<>>
    /\ \E a \in 1..Len(entry_flows), b \in 1..Len(exit_flows) :
          /\ LexLess(<<a, b>>, <<i, j>>)
          /\ entry_flows[a].bytes = 0
          /\ exit_flows[b].bytes = 0
          /\ ~ZeroPairInWindow(a, b)

\* C10: in main an image is written only after the fetch and the parse have
\* completed without error and the correlator has returned a non-empty list,
\* correlation_graph.png before timeline_graph.png; a fetch or parse failure
\* ends the run before the correlator is called and before any image; a run
\* that ends normally with an empty list has written no image
C10_RenderingOrder ==
    /\ rendered # <<>> =>
          /\ err = ""
          /\ tor_data.has_relays
          /\ relay_index > Len(tor_data.relays)
          /\ Len(entry_nodes) + Len(exit_nodes) = Len(tor_data.relays)
          /\ calls = 1
          /\ correlations # <<>>
          /\ shown = <<correlations[1]>>
    /\ rendered \in { <<>>, <<"correlation_graph.png">>,
                      <<"correlation_graph.png", "timeline_graph.png">> }
    /\ err \in {"ConnectionError", "JSONDecodeError", "KeyError"} =>
          /\ pc = "fatal"
          /\ i = 0
          /\ calls = 0
          /\ rendered = <<>>
    /\ pc \in {"traffic", "correlate", "scan", "report", "visualize", "timeline", "done"} =>
          /\ err = ""
          /\ tor_data.has_relays
    /\ (pc = "done" /\ correlations = <<>>) => rendered = <<>>

\* C10 witness: a run that parsed an entry relay and an exit relay and wrote
\* both images
C10_Witness ==
    /\ pc = "done"
    /\ entry_nodes # <<>>
    /\ exit_nodes # <<>>
    /\ rendered = <<"correlation_graph.png", "timeline_graph.png">>

====
